---- MODULE Spec2Model ----
(***************************************************************************)
(* A model of nano-osc: the OSC 1.0 message/bundle codec                   *)
(* (src/src/nano-osc.cpp, src/inc/nano-osc.hpp), the UDP transport and the *)
(* server's dispatch loop.                                                 *)
(*                                                                         *)
(* Representation.  A byte is 0..255 and std::string / std::vector<uint8_t>*)
(* are sequences of bytes.  A 32-bit quantity (int32_t, the bit pattern of *)
(* a float) is the integer in -2^31 .. 2^31-1 with the same two's          *)
(* complement bits; a 64-bit quantity (int64_t, uint64_t, the bit pattern  *)
(* of a double) is the pair <<high word, low word>> of two such words.     *)
(* A pointer with the storage it points into is a record                   *)
(* [bytes, cap]: the bytes written so far, and the number of bytes of the  *)
(* allocation (bytes beyond Len(bytes) and below cap are zero, as in a     *)
(* value-initialised std::vector).  A read at an index >= cap is outside   *)
(* the allocation: undefined behaviour, reported as status "ub".           *)
(***************************************************************************)
EXTENDS Integers, Sequences, FiniteSets, TLC

VARIABLES
    msg,       \* the Message under construction: [address, tags, arguments]
    bundle,    \* the Bundle under construction: [timetag, messages, bundles]
    data,      \* the byte buffer handed to Message::decode / Bundle::decode
    size,      \* the size argument handed along with data
    ret,       \* outcome of the last decode call
    net,       \* datagrams pending in the socket's receive queue
    m_buffer,  \* OSCServer::m_buffer: the bytes written so far (the rest is 0)
    m_socket_fd,       \* UDPTransport::m_socket_fd
    m_connected,       \* UDPTransport::m_connected
    m_msg_handler,     \* OSCServer::m_msg_handler is set
    m_bundle_handler,  \* OSCServer::m_bundle_handler is set
    pc,        \* "idle"; "process_all" while the loop of process_all runs;
               \* "fault" once undefined behaviour has ended the process
    count,     \* the local count of process_all
    last,      \* the last operation on the server or transport and its result
    closed     \* UDPTransport::close has been called

vars == <<msg, bundle, data, size, ret, net, m_buffer, m_socket_fd, m_connected,
          m_msg_handler, m_bundle_handler, pc, count, last, closed>>

codecVars == <<msg, bundle, data, size, ret>>
serverVars == <<net, m_buffer, m_socket_fd, m_connected, m_msg_handler,
                m_bundle_handler, pc, count, last, closed>>

----------------------------------------------------------------------------
(* Characters of the wire format. *)
CH_comma == 44
CH_hash == 35
CH_slash == 47
CH_S == 83
CH_b == 98
CH_c == 99
CH_d == 100
CH_e == 101
CH_f == 102
CH_h == 104
CH_i == 105
CH_l == 108
CH_m == 109
CH_n == 110
CH_r == 114
CH_s == 115
CH_t == 116
CH_u == 117

BUFFER_MAX_SIZE == 65536
BUNDLE_ID == <<CH_hash, CH_b, CH_u, CH_n, CH_d, CH_l, CH_e, 0>>

Max(a, b) == IF a > b THEN a ELSE b

Zeros(n) == [k \in 1..n |-> 0]

(* A pointer to freshly allocated storage holding exactly the bytes b. *)
Exact(b) == [bytes |-> b, cap |-> Len(b)]

(* p[i] for i < cap. *)
ByteAt(mem, i) == IF i < Len(mem.bytes) THEN mem.bytes[i + 1] ELSE 0

(* The pointer p + k. *)
Advance(mem, k) ==
    [bytes |-> SubSeq(mem.bytes, k + 1, Len(mem.bytes)), cap |-> mem.cap - k]

(* [p, p + n) lies inside the allocation. *)
InBounds(mem, p, n) == p >= 0 /\ p + n <= mem.cap

----------------------------------------------------------------------------
(* detail:: primitive encoders.  Each returns the bytes it appends to out. *)

align4(n) == (4 - (n % 4)) % 4

add_osc_u32(v) ==
    << (v \div 16777216) % 256, (v \div 65536) % 256, (v \div 256) % 256, v % 256 >>

add_osc_u64(v) == add_osc_u32(v[1]) \o add_osc_u32(v[2])

add_osc_int32(v) == add_osc_u32(v)

add_osc_int64(v) == add_osc_u64(v)

add_osc_float32(f) == add_osc_u32(f)

add_osc_float64(d) == add_osc_u64(d)

add_osc_string(s) == s \o <<0>> \o Zeros(align4(Len(s) + 1))

add_osc_blob(b) == add_osc_u32(Len(b)) \o b \o Zeros(align4(Len(b)))

----------------------------------------------------------------------------
(* detail:: primitive decoders. *)

(* The four bytes at p as an unsigned number.  Lengths of the model stay   *)
(* below 2^31.                                                             *)
read_u32_be(mem, p) ==
    ByteAt(mem, p) * 16777216 + ByteAt(mem, p + 1) * 65536
        + ByteAt(mem, p + 2) * 256 + ByteAt(mem, p + 3)

(* The same four bytes as a 32-bit word (static_cast<int32_t>). *)
Word32(mem, p) ==
    LET b0 == ByteAt(mem, p)
    IN  (IF b0 >= 128 THEN b0 - 256 ELSE b0) * 16777216
            + ByteAt(mem, p + 1) * 65536 + ByteAt(mem, p + 2) * 256
            + ByteAt(mem, p + 3)

read_u64_be(mem, p) == << Word32(mem, p), Word32(mem, p + 4) >>

is_bundle(mem) == \A k \in 0..7 : ByteAt(mem, k) = BUNDLE_ID[k + 1]

read_osc_int32(mem, offset) ==
    [v |-> Word32(mem, offset), offset |-> offset + 4]

read_osc_int64(mem, offset) ==
    [v |-> read_u64_be(mem, offset), offset |-> offset + 8]

read_osc_float32(mem, offset) ==
    [v |-> Word32(mem, offset), offset |-> offset + 4]

(* uint32_t bits = read_u64_be(..) keeps the low word; memcpy(&d, &bits, 8) *)
(* then copies 8 bytes out of a 4-byte object: the other word of the double *)
(* is whatever lies next to bits (ub.g), in the low or the high half        *)
(* depending on the byte order of the build (ub.le).                        *)
read_osc_float64(mem, offset, ub) ==
    LET bits == read_u64_be(mem, offset)[2]
    IN  [v |-> IF ub.le THEN << ub.g, bits >> ELSE << bits, ub.g >>,
         offset |-> offset + 8]

read_osc_timetag(mem, offset) ==
    [v |-> read_u64_be(mem, offset), offset |-> offset + 8]

RECURSIVE ScanNul(_, _, _)
(* while (offset < size && data[offset] != 0x00) ++offset; *)
ScanNul(mem, sz, k) ==
    IF k < sz /\ k < mem.cap /\ ByteAt(mem, k) # 0
    THEN ScanNul(mem, sz, k + 1)
    ELSE k

(* read_osc_string once the scan has stopped at index k.  status "throw":  *)
(* std::runtime_error; "ub": data[k] is read outside the allocation.  hi is *)
(* one past the highest index read.                                        *)
StringAt(mem, sz, offset, k) ==
    IF k >= sz
    THEN [status |-> "throw", out |-> <<>>, offset |-> k,
          hi |-> IF k > offset THEN k ELSE 0]
    ELSE IF k >= mem.cap
    THEN [status |-> "ub", out |-> <<>>, offset |-> k, hi |-> k + 1]
    ELSE [status |-> "ok",
          out |-> [j \in 1..(k - offset) |-> ByteAt(mem, offset + j - 1)],
          offset |-> ((k + 4) \div 4) * 4,
          hi |-> k + 1]

read_osc_string(mem, sz, offset) ==
    StringAt(mem, sz, offset, ScanNul(mem, sz, offset))

(* offset = (offset + 4) & ~0x3 at the end of read_osc_blob. *)
BlobAlign(offset) == ((offset + 4) \div 4) * 4

(* read_osc_blob once the length prefix len is read and the cursor o is    *)
(* past it.  status "false": an early return.                              *)
BlobPayload(mem, sz, o, len) ==
    IF o + len > sz
    THEN [status |-> "false", out |-> <<>>, offset |-> o, hi |-> o]
    ELSE IF ~InBounds(mem, o, len)
    THEN [status |-> "ub", out |-> <<>>, offset |-> o, hi |-> o + len]
    ELSE [status |-> "ok",
          out |-> [j \in 1..len |-> ByteAt(mem, o + j - 1)],
          offset |-> BlobAlign(o + len),
          hi |-> o + len]

read_osc_blob(mem, sz, offset) ==
    IF offset + 4 > sz
    THEN [status |-> "false", out |-> <<>>, offset |-> offset, hi |-> 0]
    ELSE IF ~InBounds(mem, offset, 4)
    THEN [status |-> "ub", out |-> <<>>, offset |-> offset, hi |-> offset + 4]
    ELSE BlobPayload(mem, sz, offset + 4, read_u32_be(mem, offset))

----------------------------------------------------------------------------
(* Message *)

(* explicit Message(const std::string& addr) *)
Message(addr) == [address |-> addr, tags |-> <<CH_comma>>, arguments |-> <<>>]

Value(type, v) == [type |-> type, v |-> v]

(* The body shared by add_int32, add_float, add_string and add_blob. *)
PushArgument(m, tag, type, v) ==
    [m EXCEPT !.tags = Append(@, tag), !.arguments = Append(@, Value(type, v))]

Message_clear(m) == [m EXCEPT !.tags = <<CH_comma>>, !.arguments = <<>>]

Message_add_int32(m, v) == PushArgument(m, CH_i, "OSCInt", v)

Message_add_float(m, v) == PushArgument(m, CH_f, "OSCFloat", v)

Message_add_string(m, v) == PushArgument(m, CH_s, "OSCString", v)

Message_add_blob(m, v) == PushArgument(m, CH_b, "OSCBlob", v)

(* The std::visit of Message::encode: one encoder per alternative. *)
EncodeValue(arg) ==
    CASE arg.type = "OSCInt"     -> add_osc_int32(arg.v)
      [] arg.type = "OSCInt64"   -> add_osc_int64(arg.v)
      [] arg.type = "OSCFloat"   -> add_osc_float32(arg.v)
      [] arg.type = "OSCFloat64" -> add_osc_float64(arg.v)
      [] arg.type = "OSCString"  -> add_osc_string(arg.v)
      [] arg.type = "OSCBlob"    -> add_osc_blob(arg.v)
      [] arg.type = "OSCTimeTag" -> add_osc_u64(arg.v)

RECURSIVE EncodeArguments(_, _)
EncodeArguments(args, k) ==
    IF k > Len(args) THEN <<>>
    ELSE EncodeValue(args[k]) \o EncodeArguments(args, k + 1)

Message_encode(m) ==
    add_osc_string(m.address) \o add_osc_string(m.tags)
        \o EncodeArguments(m.arguments, 1)

NoMessage == [address |-> <<>>, tags |-> <<>>, arguments |-> <<>>]

(* The decoder's state is [status, offset, arguments] with three fields of *)
(* bookkeeping: hi, one past the highest index read; short, an argument    *)
(* extended past index sz; blobs, the successful blob reads.               *)

(* A fixed-width read of n bytes at st.offset that yielded r. *)
FixedRead(st, r, n, sz) ==
    [st EXCEPT !.offset = r.offset,
               !.hi = Max(@, st.offset + n),
               !.short = @ \/ (st.offset + n > sz)]

(* msg.arguments.emplace_back(v) *)
PushValue(st, type, v) ==
    [st EXCEPT !.arguments = Append(@, Value(type, v))]

PushFixed(st, r, n, sz, type) == PushValue(FixedRead(st, r, n, sz), type, r.v)

OutOfAllocation(st, n) ==
    [st EXCEPT !.status = "ub", !.hi = Max(@, st.offset + n), !.short = TRUE]

(* case 's': read_osc_string throws, or s is appended. *)
PushString(st, r) ==
    IF r.status = "ok"
    THEN PushValue([st EXCEPT !.offset = r.offset, !.hi = Max(@, r.hi)],
                   "OSCString", r.out)
    ELSE [st EXCEPT !.status = r.status, !.hi = Max(@, r.hi), !.short = TRUE]

(* case 'b': the result of read_osc_blob is not looked at; b is appended   *)
(* as read_osc_blob left it.                                                *)
PushBlob(st, r) ==
    IF r.status = "ub"
    THEN [st EXCEPT !.status = "ub", !.hi = Max(@, r.hi), !.short = TRUE]
    ELSE PushValue([st EXCEPT !.offset = r.offset,
                              !.hi = Max(@, r.hi),
                              !.short = @ \/ r.status = "false",
                              !.blobs = IF r.status = "ok"
                                        THEN Append(@, [at |-> st.offset,
                                                        len |-> Len(r.out),
                                                        next |-> r.offset])
                                        ELSE @],
                   "OSCBlob", r.out)

(* One iteration of the switch of Message::decode. *)
DecodeTag(st, tag, mem, sz, ub) ==
    CASE tag = CH_i ->
            IF ~InBounds(mem, st.offset, 4) THEN OutOfAllocation(st, 4)
            ELSE PushFixed(st, read_osc_int32(mem, st.offset), 4, sz, "OSCInt")
      [] tag = CH_f ->
            IF ~InBounds(mem, st.offset, 4) THEN OutOfAllocation(st, 4)
            ELSE PushFixed(st, read_osc_float32(mem, st.offset), 4, sz, "OSCFloat")
      [] tag \in {CH_S, CH_s} ->
            PushString(st, read_osc_string(mem, sz, st.offset))
      [] tag = CH_b ->
            PushBlob(st, read_osc_blob(mem, sz, st.offset))
      [] tag = CH_h ->
            IF ~InBounds(mem, st.offset, 8) THEN OutOfAllocation(st, 8)
            ELSE FixedRead(st, read_osc_int64(mem, st.offset), 8, sz)
      [] tag = CH_t ->
            IF ~InBounds(mem, st.offset, 8) THEN OutOfAllocation(st, 8)
            ELSE PushFixed(st, read_osc_timetag(mem, st.offset), 8, sz, "OSCTimeTag")
      [] tag = CH_d ->
            IF ~InBounds(mem, st.offset, 8) THEN OutOfAllocation(st, 8)
            ELSE PushFixed(st, read_osc_float64(mem, st.offset, ub), 8, sz,
                           "OSCFloat64")
      [] tag \in {CH_c, CH_r, CH_m} ->
            [st EXCEPT !.offset = @ + 4, !.short = @ \/ (st.offset + 4 > sz)]
      [] OTHER -> st

RECURSIVE DecodeTags(_, _, _, _, _, _)
(* for (char& tag : tagstr) *)
DecodeTags(st, tagstr, k, mem, sz, ub) ==
    IF k > Len(tagstr) \/ st.status # "ok" THEN st
    ELSE DecodeTags(DecodeTag(st, tagstr[k], mem, sz, ub), tagstr, k + 1,
                    mem, sz, ub)

(* What Message::decode gives: status "ok" and the Message, "throw"        *)
(* (std::runtime_error) or "ub" (a byte outside the allocation is read).    *)
DecodeFailed(status, hi, offset) ==
    [status |-> status, msg |-> NoMessage, hi |-> hi, short |-> TRUE,
     offset |-> offset, blobs |-> <<>>]

(* return msg; after the loop over the tags ended in st. *)
DecodeResult(addr, tagstr, st) ==
    [status |-> st.status,
     msg |-> IF st.status = "ok"
             THEN [address |-> addr, tags |-> tagstr, arguments |-> st.arguments]
             ELSE NoMessage,
     hi |-> st.hi, short |-> st.short, offset |-> st.offset, blobs |-> st.blobs]

(* Message::decode from the read of the tag string (t) on. *)
DecodeAfterTags(a, t, mem, sz, ub) ==
    IF t.status # "ok" THEN DecodeFailed(t.status, Max(a.hi, t.hi), t.offset)
    ELSE DecodeResult(a.out, t.out,
             DecodeTags([status |-> "ok", offset |-> t.offset,
                         arguments |-> <<>>, hi |-> Max(a.hi, t.hi),
                         short |-> FALSE, blobs |-> <<>>],
                        t.out, 1, mem, sz, ub))

(* Message::decode from the read of the address (a) on. *)
DecodeAfterAddress(a, mem, sz, ub) ==
    IF a.status # "ok" THEN DecodeFailed(a.status, a.hi, a.offset)
    ELSE DecodeAfterTags(a, read_osc_string(mem, sz, a.offset), mem, sz, ub)

Message_decode(mem, sz, ub) ==
    DecodeAfterAddress(read_osc_string(mem, sz, 0), mem, sz, ub)

----------------------------------------------------------------------------
(* Bundle *)

(* Bundle() = default: timetag {1}. *)
Bundle == [timetag |-> <<0, 1>>, messages |-> <<>>, bundles |-> <<>>]

Bundle_add_message(b, m) == [b EXCEPT !.messages = Append(@, m)]

Bundle_add_bundle(b, c) == [b EXCEPT !.bundles = Append(@, c)]

RECURSIVE EncodeElements(_, _)
(* add_osc_u32(buffer, len); buffer.insert(.., m.data(), m.data() + len)    *)
(* for each encoded element.                                                *)
EncodeElements(elems, k) ==
    IF k > Len(elems) THEN <<>>
    ELSE add_osc_u32(Len(elems[k])) \o elems[k] \o EncodeElements(elems, k + 1)

RECURSIVE Bundle_encode(_)
Bundle_encode(b) ==
    add_osc_string(SubSeq(BUNDLE_ID, 1, 7))
        \o EncodeElements([k \in 1..Len(b.messages) |-> Message_encode(b.messages[k])], 1)
        \o EncodeElements([k \in 1..Len(b.bundles) |-> Bundle_encode(b.bundles[k])], 1)

(* The decoder's state is [status, offset, bundle] with bookkeeping: hi,    *)
(* one past the highest index read; over, a length handed to a nested      *)
(* decode exceeded the bytes that remained before index sz.                *)

(* A read of n bytes at index p that lies outside the allocation. *)
BundleOutOfAllocation(st, p, n) ==
    [st EXCEPT !.status = "ub", !.hi = Max(@, p + n)]

(* bundle.bundles.emplace_back(b); offset += len; r is what the nested     *)
(* Bundle::decode(data + o, len) gave.                                      *)
AfterBundle(st, r, o, len, sz) ==
    [st EXCEPT !.status = r.status,
               !.offset = IF r.status = "ok" THEN o + len ELSE o,
               !.hi = Max(Max(@, o + 8), o + r.hi),
               !.over = @ \/ r.over \/ (o + len > sz),
               !.bundle.bundles = IF r.status = "ok" THEN Append(@, r.bundle)
                                  ELSE @]

(* bundle.messages.emplace_back(msg); offset += len; r is what the nested  *)
(* Message::decode(data + o, len) gave.                                     *)
AfterMessage(st, r, o, len, sz) ==
    [st EXCEPT !.status = r.status,
               !.offset = IF r.status = "ok" THEN o + len ELSE o,
               !.hi = Max(Max(@, o + 8), o + r.hi),
               !.over = @ \/ (o + len > sz),
               !.bundle.messages = IF r.status = "ok" THEN Append(@, r.msg)
                                   ELSE @]

RECURSIVE Bundle_decode(_, _, _), BundleLoop(_, _, _, _), BundleElement(_, _, _, _, _, _)

(* The body of the loop once the length prefix len is read and the cursor  *)
(* o is past it.                                                            *)
BundleElement(st, mem, sz, ub, o, len) ==
    IF ~InBounds(mem, o, 8)
    THEN BundleOutOfAllocation([st EXCEPT !.over = @ \/ (o + len > sz)], o, 8)
    ELSE IF is_bundle(Advance(mem, o))
    THEN AfterBundle(st, Bundle_decode(Advance(mem, o), len, ub), o, len, sz)
    ELSE AfterMessage(st, Message_decode(Advance(mem, o), len, ub), o, len, sz)

(* while (offset < size) { ... } *)
BundleLoop(st, mem, sz, ub) ==
    IF st.status # "ok" \/ ~(st.offset < sz) THEN st
    ELSE IF ~InBounds(mem, st.offset, 4)
    THEN BundleOutOfAllocation(st, st.offset, 4)
    ELSE BundleLoop(BundleElement(st, mem, sz, ub, st.offset + 4,
                                  read_u32_be(mem, st.offset)),
                    mem, sz, ub)

(* The state of Bundle::decode when the loop is entered. *)
BundleStart(tt) ==
    [status |-> "ok", offset |-> tt.offset,
     bundle |-> [Bundle EXCEPT !.timetag = tt.v], hi |-> 16, over |-> FALSE]

BundleFailed(status, offset, hi) ==
    [status |-> status, offset |-> offset, bundle |-> Bundle, hi |-> hi,
     over |-> FALSE]

(* Bundle::decode(data, size).  status as for Message_decode; offset is    *)
(* the cursor at the end.                                                   *)
Bundle_decode(mem, sz, ub) ==
    IF ~InBounds(mem, 0, 8) THEN BundleFailed("ub", 0, 8)
    ELSE IF ~is_bundle(mem) THEN BundleFailed("throw", 0, 8)
    ELSE IF ~InBounds(mem, 8, 8) THEN BundleFailed("ub", 8, 16)
    ELSE BundleLoop(BundleStart(read_osc_timetag(mem, 8)), mem, sz, ub)

----------------------------------------------------------------------------
(* Bounds and input sets of the model. *)

MaxArgs == 2
MaxCut == 8

Addresses == { <<CH_slash>>, <<CH_slash, CH_t, CH_e, CH_s>> }
Int32Vals == { -1 }
FloatVals == { -1090519040 }                  \* -0.5f, 0xBF000000
StringVals == { <<>>, <<CH_s, CH_t, CH_r>> }
BlobVals == { <<>>, <<1>>, <<1, 35, 69, 103>> }
Int64Vals == { <<-1, -2>> }
Float64Vals == { <<1074340347, 1413754136>> } \* 0x400921FB54442D18
TimeTagVals == { <<0, 1>> }

(* What the 4 bytes next to the local bits of read_osc_float64 may hold. *)
GarbageWords == { 0, 1074340347 }
UBChoices == [g : GarbageWords, le : BOOLEAN]

NoData == [bytes |-> <<>>, cap |-> 0, from |-> "none"]

NoRet == [op |-> "none", status |-> "none", value |-> NoMessage, hi |-> 0,
          short |-> FALSE, blobs |-> <<>>, offset |-> 0]

(* The buffer a caller gets from encode(): exactly the bytes b. *)
Encoded(b) == [bytes |-> b, cap |-> Len(b), from |-> "encode"]

(* The outcome r of a decode call, as kept in ret. *)
MessageRet(r) ==
    [op |-> "Message_decode", status |-> r.status, value |-> r.msg,
     hi |-> r.hi, short |-> r.short, blobs |-> r.blobs, offset |-> r.offset]

BundleRet(r) ==
    [op |-> "Bundle_decode", status |-> r.status, value |-> r.bundle,
     hi |-> r.hi, short |-> r.over, blobs |-> <<>>, offset |-> r.offset]

(* last: the operation (op), what it returned (ret), whether it made a     *)
(* system call on the socket (sock), whether close had been called before  *)
(* it (was_closed); for process_one the datagram received (dgram), how its *)
(* decode ended (status), whether the handler of its kind was registered   *)
(* (set) and the handler invocations (handlers); for process_all the       *)
(* datagrams decoded during the call (decoded) and those still pending     *)
(* when it returned (pending).                                             *)
NoOp == [op |-> "none", ret |-> 0, sock |-> FALSE, was_closed |-> FALSE,
         handlers |-> <<>>, dgram |-> <<>>, status |-> "none", set |-> FALSE,
         decoded |-> 0, pending |-> 0]

(* The server and transport right after construction: the socket is open,  *)
(* no handler is registered, m_buffer is BUFFER_MAX_SIZE zero bytes.        *)
ServerInit ==
    /\ net = <<>>
    /\ m_buffer = <<>>
    /\ m_socket_fd = 3
    /\ m_connected = TRUE
    /\ m_msg_handler = FALSE
    /\ m_bundle_handler = FALSE
    /\ pc = "idle"
    /\ count = 0
    /\ last = NoOp
    /\ closed = FALSE

----------------------------------------------------------------------------
(* The Message codec as a state machine: build a Message, encode it, hand   *)
(* the bytes (whole or cut short) to Message::decode.                       *)

Building == data.from = "none"

Construct ==
    \E addr \in Addresses :
        /\ msg' = Message(addr)
        /\ data' = NoData
        /\ size' = 0
        /\ ret' = NoRet
        /\ UNCHANGED <<bundle, serverVars>>

add_int32 ==
    \E v \in Int32Vals :
        /\ Building /\ Len(msg.arguments) < MaxArgs
        /\ msg' = Message_add_int32(msg, v)
        /\ UNCHANGED <<bundle, data, size, ret, serverVars>>

add_float ==
    \E v \in FloatVals :
        /\ Building /\ Len(msg.arguments) < MaxArgs
        /\ msg' = Message_add_float(msg, v)
        /\ UNCHANGED <<bundle, data, size, ret, serverVars>>

add_string ==
    \E v \in StringVals :
        /\ Building /\ Len(msg.arguments) < MaxArgs
        /\ msg' = Message_add_string(msg, v)
        /\ UNCHANGED <<bundle, data, size, ret, serverVars>>

add_blob ==
    \E v \in BlobVals :
        /\ Building /\ Len(msg.arguments) < MaxArgs
        /\ msg' = Message_add_blob(msg, v)
        /\ UNCHANGED <<bundle, data, size, ret, serverVars>>

(* The caller appends to the public members tags and arguments itself: the *)
(* only way to an int64, float64 or time-tag argument.                      *)
emplace_argument ==
    \E a \in ({<<CH_h, "OSCInt64">>} \X Int64Vals)
               \cup ({<<CH_d, "OSCFloat64">>} \X Float64Vals)
               \cup ({<<CH_t, "OSCTimeTag">>} \X TimeTagVals) :
        /\ Building /\ Len(msg.arguments) < MaxArgs
        /\ msg' = PushArgument(msg, a[1][1], a[1][2], a[2])
        /\ UNCHANGED <<bundle, data, size, ret, serverVars>>

clear ==
    /\ Building /\ Len(msg.arguments) > 0
    /\ msg' = Message_clear(msg)
    /\ UNCHANGED <<bundle, data, size, ret, serverVars>>

EncodeMessage ==
    /\ Building
    /\ data' = Encoded(Message_encode(msg))
    /\ size' = data'.cap
    /\ UNCHANGED <<msg, bundle, ret, serverVars>>

(* The caller hands over fewer bytes than were encoded: either a shorter   *)
(* size for the same storage (keep), or a copy of the first bytes only.     *)
Truncate ==
    \E n \in 1..MaxCut, keep \in BOOLEAN :
        /\ data.from = "encode" /\ ret.op = "none" /\ n <= size
        /\ size' = size - n
        /\ data' = IF keep THEN [data EXCEPT !.from = "truncated"]
                   ELSE [bytes |-> SubSeq(data.bytes, 1, size - n),
                         cap |-> size - n, from |-> "truncated"]
        /\ UNCHANGED <<msg, bundle, ret, serverVars>>

DecodeMessage ==
    \E ub \in UBChoices :
        /\ data.from \in {"encode", "truncated"} /\ ret.op = "none"
        /\ ret' = MessageRet(Message_decode(data, size, ub))
        /\ UNCHANGED <<msg, bundle, data, size, serverVars>>

InitMsg ==
    /\ msg \in { Message(addr) : addr \in Addresses }
    /\ bundle = Bundle
    /\ data = NoData
    /\ size = 0
    /\ ret = NoRet
    /\ ServerInit

NextMsg ==
    \/ Construct
    \/ add_int32
    \/ add_float
    \/ add_string
    \/ add_blob
    \/ emplace_argument
    \/ clear
    \/ EncodeMessage
    \/ Truncate
    \/ DecodeMessage

SpecMsg == InitMsg /\ [][NextMsg]_vars

----------------------------------------------------------------------------
(* UDPTransport.  t is [fd, connected]; queue is the socket's receive      *)
(* queue.                                                                  *)

Transport == [fd |-> m_socket_fd, connected |-> m_connected]

(* ::send returned sent. *)
UDPTransport_send(t, d, sent) ==
    IF ~t.connected \/ t.fd < 0 THEN [ret |-> FALSE, sock |-> FALSE]
    ELSE IF sent < 0 THEN [ret |-> FALSE, sock |-> TRUE]
    ELSE [ret |-> (sent = Len(d)), sock |-> TRUE]

(* ::recv gives the next datagram, or -1 with EAGAIN when none is pending. *)
UDPTransport_receive(t, queue) ==
    IF ~t.connected \/ t.fd < 0
    THEN [ret |-> 0, sock |-> FALSE, d |-> <<>>, queue |-> queue]
    ELSE IF queue = <<>>
    THEN [ret |-> 0, sock |-> TRUE, d |-> <<>>, queue |-> queue]
    ELSE [ret |-> Len(Head(queue)), sock |-> TRUE, d |-> Head(queue),
          queue |-> Tail(queue)]

UDPTransport_is_ready(t) == t.connected

(* close() that forgets m_connected = false. *)
UDPTransport_close_keeps_connected(t) ==
    IF t.fd >= 0 THEN [fd |-> -1, connected |-> t.connected, sock |-> TRUE]
    ELSE [fd |-> t.fd, connected |-> t.connected, sock |-> FALSE]

UDPTransport_close(t) ==
    IF t.fd >= 0 THEN [fd |-> -1, connected |-> FALSE, sock |-> TRUE]
    ELSE [fd |-> t.fd, connected |-> t.connected, sock |-> FALSE]

----------------------------------------------------------------------------
(* OSCServer *)

(* m_buffer after ::recv wrote the datagram d to its start. *)
Received(buf, d) == d \o SubSeq(buf, Len(d) + 1, Len(buf))

(* m_buffer.data() with the vector it points into. *)
ServerMem(buf) == [bytes |-> buf, cap |-> BUFFER_MAX_SIZE]

Invocation(h, arg, garbage) == [h |-> h, arg |-> arg, garbage |-> garbage]

(* The try block of process_one for a decode that ended in status, with    *)
(* value decoded and the handler which registered or not (set).  fault:    *)
(* the process was ended.                                                   *)
Outcome(rcv, buf, status, which, value, set) ==
    [ret |-> (status = "ok"),
     sock |-> rcv.sock, dgram |-> rcv.d, queue |-> rcv.queue, buffer |-> buf,
     status |-> status, fault |-> FALSE, which |-> which, set |-> set,
     handlers |-> IF status = "ok" /\ set
                  THEN << Invocation(which, value, FALSE) >>
                  ELSE <<>>]

BundleOutcome(rcv, buf, r, bh) ==
    Outcome(rcv, buf, r.status, "bundle", r.bundle, bh)

MessageOutcome(rcv, buf, r, mh) ==
    Outcome(rcv, buf, r.status, "message", r.msg, mh)

(* process_one from the try block on: buf is m_buffer with the datagram in *)
(* it, rcv.ret its length.                                                  *)
Dispatch(rcv, buf, mh, bh, ub) ==
    IF is_bundle(ServerMem(buf))
    THEN BundleOutcome(rcv, buf, Bundle_decode(ServerMem(buf), rcv.ret, ub), bh)
    ELSE MessageOutcome(rcv, buf, Message_decode(ServerMem(buf), rcv.ret, ub), mh)

(* process_one after m_transport->receive returned rcv. *)
AfterReceive(rcv, buf, mh, bh, ub) ==
    IF rcv.ret = 0
    THEN [ret |-> FALSE, sock |-> rcv.sock, dgram |-> <<>>, queue |-> rcv.queue,
          buffer |-> buf, status |-> "none", fault |-> FALSE,
          which |-> "none", set |-> FALSE, handlers |-> <<>>]
    ELSE Dispatch(rcv, Received(buf, rcv.d), mh, bh, ub)

(* process_one; status "ub" when the decode read outside m_buffer. *)
OSCServer_process_one(t, queue, buf, mh, bh, ub) ==
    AfterReceive(UDPTransport_receive(t, queue), buf, mh, bh, ub)

(* What a read outside m_buffer may come to: the process is ended by a     *)
(* fault, the decode returns a value made of the bytes it found, or it      *)
(* throws.                                                                  *)
UBOutcomes(status) ==
    IF status = "ub" THEN { "fault", "returns", "throws" } ELSE { "defined" }

Resolve(r, o) ==
    CASE o = "fault"   -> [r EXCEPT !.fault = TRUE]
      [] o = "returns" -> [r EXCEPT !.ret = TRUE,
                                    !.handlers = IF r.set
                                                 THEN << Invocation(r.which, NoMessage, TRUE) >>
                                                 ELSE <<>>]
      [] OTHER         -> r

----------------------------------------------------------------------------
(* The server with its transport as a state machine. *)

MaxQueue == 2

(* A bundle as a peer that follows the wire format sends it. *)
WireBundle(tt, elems) == BUNDLE_ID \o add_osc_u64(tt) \o EncodeElements(elems, 1)

IntMessage == Message_add_int32(Message(<<CH_slash>>), -1)

(* "/tes" without its terminator. *)
UnterminatedMessage == <<CH_slash, CH_t, CH_e, CH_s>>

(* "#bundle" without the NUL: seven bytes. *)
SevenByteDatagram == SubSeq(BUNDLE_ID, 1, 7)

(* A bundle whose element announces 32 MiB and holds a message "/" ",b"    *)
(* whose blob announces 16 MiB.                                             *)
OversizeBundle ==
    BUNDLE_ID \o add_osc_u64(<<0, 1>>) \o <<2, 0, 0, 0>>
        \o add_osc_string(<<CH_slash>>) \o add_osc_string(<<CH_comma, CH_b>>)
        \o <<1, 0, 0, 0>>

Datagrams ==
    { Message_encode(IntMessage),
      WireBundle(<<0, 1>>, << Message_encode(IntMessage) >>),
      UnterminatedMessage,
      WireBundle(<<0, 1>>, << UnterminatedMessage >>),
      SevenByteDatagram,
      OversizeBundle }

Idle == pc = "idle"

(* A peer's datagram reaches the socket. *)
Arrive ==
    \E d \in Datagrams :
        /\ Idle /\ m_socket_fd >= 0 /\ Len(net) < MaxQueue
        /\ net' = Append(net, d)
        /\ UNCHANGED <<codecVars, m_buffer, m_socket_fd, m_connected,
                       m_msg_handler, m_bundle_handler, pc, count, last, closed>>

set_message_handler ==
    /\ Idle /\ ~m_msg_handler
    /\ m_msg_handler' = TRUE
    /\ UNCHANGED <<codecVars, net, m_buffer, m_socket_fd, m_connected,
                   m_bundle_handler, pc, count, last, closed>>

set_bundle_handler ==
    /\ Idle /\ ~m_bundle_handler
    /\ m_bundle_handler' = TRUE
    /\ UNCHANGED <<codecVars, net, m_buffer, m_socket_fd, m_connected,
                   m_msg_handler, pc, count, last, closed>>

send ==
    \E d \in Datagrams, ok \in BOOLEAN :
        /\ Idle
        /\ \E r \in { UDPTransport_send(Transport, d, IF ok THEN Len(d) ELSE -1) } :
              last' = [NoOp EXCEPT !.op = "send", !.ret = r.ret, !.sock = r.sock,
                                   !.was_closed = closed]
        /\ UNCHANGED <<codecVars, net, m_buffer, m_socket_fd, m_connected,
                       m_msg_handler, m_bundle_handler, pc, count, closed>>

(* receive called on the transport itself, into a buffer of the caller. *)
receive ==
    /\ Idle
    /\ \E r \in { UDPTransport_receive(Transport, net) } :
          /\ net' = r.queue
          /\ last' = [NoOp EXCEPT !.op = "receive", !.ret = r.ret,
                                  !.sock = r.sock, !.dgram = r.d,
                                  !.was_closed = closed]
    /\ UNCHANGED <<codecVars, m_buffer, m_socket_fd, m_connected,
                   m_msg_handler, m_bundle_handler, pc, count, closed>>

is_ready ==
    /\ Idle
    /\ last' = [NoOp EXCEPT !.op = "is_ready",
                            !.ret = UDPTransport_is_ready(Transport),
                            !.was_closed = closed]
    /\ UNCHANGED <<codecVars, net, m_buffer, m_socket_fd, m_connected,
                   m_msg_handler, m_bundle_handler, pc, count, closed>>

(* ::close discards what is pending in the socket. *)
close ==
    /\ Idle
    /\ \E r \in { UDPTransport_close(Transport) } :
          /\ m_socket_fd' = r.fd
          /\ m_connected' = r.connected
          /\ net' = IF r.sock THEN <<>> ELSE net
          /\ last' = [NoOp EXCEPT !.op = "close", !.sock = r.sock,
                                  !.was_closed = closed]
    /\ closed' = TRUE
    /\ UNCHANGED <<codecVars, m_buffer, m_msg_handler, m_bundle_handler, pc,
                   count>>

(* What a call of process_one in the current state may give. *)
ProcessOneOutcomes(ub) ==
    UNION { { Resolve(r, o) : o \in UBOutcomes(r.status) } :
            r \in { OSCServer_process_one(Transport, net, m_buffer,
                                          m_msg_handler, m_bundle_handler, ub) } }

(* The record of one call of process_one that gave r. *)
LastOfOne(r, decodedBefore) ==
    [NoOp EXCEPT !.op = "process_one", !.ret = r.ret, !.sock = r.sock,
                 !.was_closed = closed, !.handlers = r.handlers,
                 !.dgram = r.dgram, !.status = r.status, !.set = r.set,
                 !.decoded = decodedBefore + (IF r.status = "ok" THEN 1 ELSE 0)]

process_one ==
    \E ub \in UBChoices :
        /\ Idle
        /\ \E r \in ProcessOneOutcomes(ub) :
              /\ net' = r.queue
              /\ m_buffer' = r.buffer
              /\ last' = LastOfOne(r, 0)
              /\ pc' = IF r.fault THEN "fault" ELSE pc
        /\ UNCHANGED <<codecVars, m_socket_fd, m_connected, m_msg_handler,
                       m_bundle_handler, count, closed>>

(* int count = 0; *)
process_all ==
    /\ Idle
    /\ pc' = "process_all"
    /\ count' = 0
    /\ last' = [NoOp EXCEPT !.op = "process_all", !.status = "running",
                            !.was_closed = closed]
    /\ UNCHANGED <<codecVars, net, m_buffer, m_socket_fd, m_connected,
                   m_msg_handler, m_bundle_handler, closed>>

(* One evaluation of while (process_one()): count++, or return count. *)
process_all_loop ==
    \E ub \in UBChoices :
        /\ pc = "process_all"
        /\ \E r \in ProcessOneOutcomes(ub) :
              /\ net' = r.queue
              /\ m_buffer' = r.buffer
              /\ pc' = IF r.fault THEN "fault"
                       ELSE IF r.ret THEN "process_all" ELSE "idle"
              /\ count' = IF r.ret THEN count + 1 ELSE count
              /\ last' = IF r.fault \/ r.ret
                         THEN LastOfOne(r, last.decoded)
                         ELSE [LastOfOne(r, last.decoded)
                                   EXCEPT !.op = "process_all", !.ret = count,
                                          !.pending = Len(r.queue)]
        /\ UNCHANGED <<codecVars, m_socket_fd, m_connected, m_msg_handler,
                       m_bundle_handler, closed>>

Init ==
    /\ msg = Message(<<CH_slash>>)
    /\ bundle = Bundle
    /\ data = NoData
    /\ size = 0
    /\ ret = NoRet
    /\ ServerInit

(* The server: it owns its transport, which nobody else can reach. *)
Next ==
    \/ Arrive
    \/ set_message_handler
    \/ set_bundle_handler
    \/ process_one
    \/ process_all
    \/ process_all_loop

Spec == Init /\ [][Next]_vars

(* A UDPTransport in the hands of its caller. *)
NextTransport ==
    \/ Arrive
    \/ send
    \/ receive
    \/ is_ready
    \/ close

SpecTransport == Init /\ [][NextTransport]_vars

----------------------------------------------------------------------------
(* Properties of the server and of the transport. *)

(* C5: when process_all returns, no datagram is left pending and the count  *)
(* it returns is the number of datagrams that were decoded during the call. *)
C5_ProcessAllDrainsQueue ==
    (last.op = "process_all" /\ last.status # "running") =>
        /\ last.pending = 0
        /\ last.ret = last.decoded

StartsWithMarker(d) == Len(d) >= 8 /\ SubSeq(d, 1, 8) = BUNDLE_ID

(* C6: for a datagram whose first 8 bytes are the bundle marker,            *)
(* process_one never invokes the message handler, invokes the bundle        *)
(* handler once with the decoded bundle when it decodes and no handler when *)
(* it is malformed; for any other datagram it never invokes the bundle      *)
(* handler; at most one handler is invoked per datagram.                    *)
C6_MarkerDecidesHandler ==
    (last.op = "process_one" /\ last.dgram # <<>>) =>
        /\ Len(last.handlers) <= 1
        /\ StartsWithMarker(last.dgram) =>
              /\ \A k \in 1..Len(last.handlers) : last.handlers[k].h = "bundle"
              /\ (last.status = "ok" /\ last.set) =>
                    (Len(last.handlers) = 1 /\ ~last.handlers[1].garbage)
              /\ last.status = "throw" => last.handlers = <<>>
        /\ ~StartsWithMarker(last.dgram) =>
              \A k \in 1..Len(last.handlers) : last.handlers[k].h # "bundle"

(* C7: process_one returns for every datagram; when the decode fails it     *)
(* returns false and invokes no handler, and the loop of process_all, the   *)
(* handlers and the transport are as they were.                             *)
C7_DecodeFailureContained ==
    /\ pc # "fault"
    /\ m_connected /\ m_socket_fd >= 0
    /\ last.status = "throw" =>
          /\ last.handlers = <<>>
          /\ last.op = "process_one" => last.ret = FALSE
          /\ last.op = "process_all" => pc = "idle"

(* C10: once close has been called the transport is not connected and has   *)
(* no socket, and every later send returns false, receive returns 0,        *)
(* is_ready returns false and close does nothing, none of them making a     *)
(* system call on the socket.                                               *)
C10_ClosedTransportFails ==
    /\ closed => (~m_connected /\ m_socket_fd < 0 /\ net = <<>>)
    /\ last.was_closed =>
          /\ ~last.sock
          /\ last.op = "send" => last.ret = FALSE
          /\ last.op = "receive" => last.ret = 0
          /\ last.op = "is_ready" => last.ret = FALSE

(* A send attempted after close. *)
C10_SendAfterClose == last.op = "send" /\ last.was_closed

----------------------------------------------------------------------------
(* Properties of the Message codec. *)

SameArguments(a, b) ==
    /\ Len(a) = Len(b)
    /\ \A k \in 1..Len(a) : a[k].type = b[k].type /\ a[k].v = b[k].v

(* The tag character that goes with each alternative of OSCValue. *)
TagOfType(type) ==
    CASE type = "OSCInt"     -> CH_i
      [] type = "OSCInt64"   -> CH_h
      [] type = "OSCFloat"   -> CH_f
      [] type = "OSCFloat64" -> CH_d
      [] type = "OSCString"  -> CH_s
      [] type = "OSCBlob"    -> CH_b
      [] type = "OSCTimeTag" -> CH_t

TagsMatchArguments(m) ==
    /\ Len(m.tags) = Len(m.arguments) + 1
    /\ m.tags[1] = CH_comma
    /\ \A k \in 1..Len(m.arguments) : m.tags[k + 1] = TagOfType(m.arguments[k].type)

WholeEncoding ==
    /\ data.from = "encode"
    /\ data.bytes = Message_encode(msg)
    /\ size = Len(data.bytes)

(* C1: decoding the encoding of a Message built from the seven supported    *)
(* argument types gives back the same address, the same tag string and the  *)
(* same arguments (same length, same type and same bits at every position). *)
C1_MessageRoundTrip ==
    (ret.op = "Message_decode" /\ WholeEncoding) =>
        /\ ret.status = "ok"
        /\ ret.value.address = msg.address
        /\ ret.value.tags = msg.tags
        /\ SameArguments(ret.value.arguments, msg.arguments)

(* C4: Message::decode never reads a byte at an index >= size, and it fails *)
(* (throws, returning no Message) whenever an address, tag string or        *)
(* argument named by the tag string extends past index size.                *)
C4_TruncatedDecodeFails ==
    ret.op = "Message_decode" =>
        /\ ret.hi <= size
        /\ ret.short => ret.status = "throw"

(* C8: tags and arguments correspond one to one (tags.length ==             *)
(* arguments.length + 1, one Value per tag character after the ',') in the  *)
(* Message being built and in every Message that Message::decode returns.   *)
C8_TagsMatchArguments ==
    /\ TagsMatchArguments(msg)
    /\ (ret.op = "Message_decode" /\ ret.status = "ok") =>
            TagsMatchArguments(ret.value)

(* C9: a blob of payload length L read at a 4-aligned cursor c leaves the   *)
(* cursor at c + 4 + L + align4(L), the bytes add_osc_blob emitted.         *)
C9_BlobCursor ==
    ret.op = "Message_decode" =>
        \A k \in 1..Len(ret.blobs) :
            ret.blobs[k].at % 4 = 0 =>
                ret.blobs[k].next
                    = ret.blobs[k].at + 4 + ret.blobs[k].len
                        + align4(ret.blobs[k].len)

----------------------------------------------------------------------------
(* The Bundle codec as a state machine: build a Bundle, encode it, hand the *)
(* bytes (whole or cut short) to Bundle::decode.                            *)

MaxDepth == 3
MaxElements == 2

BundleTimeTags == { <<0, 1>>, <<-2082844800, 305419896>> }

SampleMessages ==
    { Message_add_int32(Message(<<CH_slash>>), -1),
      Message_add_blob(
          Message_add_string(Message(<<CH_slash, CH_t, CH_e, CH_s>>),
                             <<CH_s, CH_t, CH_r>>),
          <<1>>) }

RECURSIVE NestedBundle(_)
(* A bundle of nesting depth d: one message and, below depth 1, one bundle. *)
NestedBundle(d) ==
    [timetag |-> <<0, d>>,
     messages |-> <<Message_add_int32(Message(<<CH_slash>>), -1)>>,
     bundles |-> IF d <= 1 THEN <<>> ELSE <<NestedBundle(d - 1)>>]

(* The bundles that are nested into the one being built. *)
SampleBundles == { NestedBundle(d) : d \in 1..(MaxDepth - 1) }

BundleConstruct ==
    /\ bundle' = Bundle
    /\ data' = NoData
    /\ size' = 0
    /\ ret' = NoRet
    /\ UNCHANGED <<msg, serverVars>>

(* bundle.timetag = t: the member is public and has no setter. *)
set_timetag ==
    \E t \in BundleTimeTags :
        /\ Building
        /\ bundle' = [bundle EXCEPT !.timetag = t]
        /\ UNCHANGED <<msg, data, size, ret, serverVars>>

add_message ==
    \E m \in SampleMessages :
        /\ Building /\ Len(bundle.messages) < MaxElements
        /\ bundle' = Bundle_add_message(bundle, m)
        /\ UNCHANGED <<msg, data, size, ret, serverVars>>

add_bundle ==
    \E c \in SampleBundles :
        /\ Building /\ Len(bundle.bundles) < MaxElements
        /\ bundle' = Bundle_add_bundle(bundle, c)
        /\ UNCHANGED <<msg, data, size, ret, serverVars>>

EncodeBundle ==
    /\ Building
    /\ data' = Encoded(Bundle_encode(bundle))
    /\ size' = data'.cap
    /\ UNCHANGED <<msg, bundle, ret, serverVars>>

DecodeBundle ==
    \E ub \in UBChoices :
        /\ data.from \in {"encode", "truncated"} /\ ret.op = "none"
        /\ ret' = BundleRet(Bundle_decode(data, size, ub))
        /\ UNCHANGED <<msg, bundle, data, size, serverVars>>

InitBundle ==
    /\ msg = Message(<<CH_slash>>)
    /\ bundle = Bundle
    /\ data = NoData
    /\ size = 0
    /\ ret = NoRet
    /\ ServerInit

NextBundle ==
    \/ BundleConstruct
    \/ set_timetag
    \/ add_message
    \/ add_bundle
    \/ EncodeBundle
    \/ Truncate
    \/ DecodeBundle

SpecBundle == InitBundle /\ [][NextBundle]_vars

----------------------------------------------------------------------------
(* Properties of the Bundle codec. *)

SameMessage(a, b) ==
    /\ a.address = b.address
    /\ a.tags = b.tags
    /\ SameArguments(a.arguments, b.arguments)

RECURSIVE SameBundle(_, _)
SameBundle(a, b) ==
    /\ a.timetag = b.timetag
    /\ Len(a.messages) = Len(b.messages)
    /\ \A k \in 1..Len(a.messages) : SameMessage(a.messages[k], b.messages[k])
    /\ Len(a.bundles) = Len(b.bundles)
    /\ \A k \in 1..Len(a.bundles) : SameBundle(a.bundles[k], b.bundles[k])

WholeBundleEncoding ==
    /\ data.from = "encode"
    /\ data.bytes = Bundle_encode(bundle)
    /\ size = Len(data.bytes)

(* C2: decoding the encoding of a Bundle gives back the same time-tag, the  *)
(* same messages in the same order and the same nested bundles in the same  *)
(* order.                                                                   *)
C2_BundleRoundTrip ==
    (ret.op = "Bundle_decode" /\ WholeBundleEncoding) =>
        /\ ret.status = "ok"
        /\ SameBundle(ret.value, bundle)

RECURSIVE SumOfLengths(_, _)
SumOfLengths(elems, k) ==
    IF k > Len(elems) THEN 0 ELSE 4 + Len(elems[k]) + SumOfLengths(elems, k + 1)

(* The layout C3 states for the encoding of b: marker, time-tag, then each  *)
(* message and then each nested bundle behind its 4-byte length.            *)
BundleLayout(b) ==
    BUNDLE_ID \o add_osc_u64(b.timetag)
        \o EncodeElements([k \in 1..Len(b.messages) |-> Message_encode(b.messages[k])], 1)
        \o EncodeElements([k \in 1..Len(b.bundles) |-> Bundle_encode(b.bundles[k])], 1)

(* C3: Bundle::encode(b) is the marker '#bundle\0', the 8-byte big-endian   *)
(* time-tag of b, each message and then each nested bundle behind a 4-byte  *)
(* big-endian length; its length is 16 + the sum of (4 + element length).   *)
C3_BundleLayout ==
    WholeBundleEncoding =>
        /\ data.bytes = BundleLayout(bundle)
        /\ Len(data.bytes)
             = 16 + SumOfLengths([k \in 1..Len(bundle.messages) |->
                                      Message_encode(bundle.messages[k])], 1)
                  + SumOfLengths([k \in 1..Len(bundle.bundles) |->
                                      Bundle_encode(bundle.bundles[k])], 1)

----------------------------------------------------------------------------
(* Bundle::decode on buffers in the wire format: a peer sends a bundle with *)
(* its time-tag, and the caller hands the bytes (whole or cut short) to     *)
(* Bundle::decode.                                                          *)

WireElements ==
    { Message_encode(IntMessage),
      WireBundle(<<0, 1>>, <<>>),
      WireBundle(<<0, 1>>, << Message_encode(IntMessage) >>) }

WireBundles ==
    { WireBundle(tt, elems) :
          tt \in BundleTimeTags,
          elems \in UNION { [1..n -> WireElements] : n \in 0..MaxElements } }

InitWire ==
    /\ msg = Message(<<CH_slash>>)
    /\ bundle = Bundle
    /\ data \in { Encoded(b) : b \in WireBundles }
    /\ size = data.cap
    /\ ret = NoRet
    /\ ServerInit

NextWire ==
    \/ Truncate
    \/ DecodeBundle

SpecWire == InitWire /\ [][NextWire]_vars

(* C11: Bundle::decode(data, size) reads no byte at an index >= size, hands *)
(* no nested decode a length beyond the bytes that remain, fails when size  *)
(* is below 16, and when it returns a Bundle its cursor is exactly size.    *)
C11_BundleDecodeInBounds ==
    ret.op = "Bundle_decode" =>
        /\ ret.hi <= size
        /\ ~ret.short
        /\ size < 16 => ret.status = "throw"
        /\ ret.status = "ok" => ret.offset = size

----------------------------------------------------------------------------
(* Independence of process_one from the datagrams received before. *)

(* process_one for the datagram d on a server that has received nothing     *)
(* yet: m_buffer is as its constructor left it.                             *)
FreshOutcome(d, mh, bh, ub) ==
    OSCServer_process_one(Transport, <<d>>, <<>>, mh, bh, ub)

(* The call recorded in l ended as f did: the same decode result and the    *)
(* same handler invoked with the same value.  Where the decode read outside *)
(* m_buffer nothing more is compared.                                       *)
SameOutcome(l, f) ==
    /\ l.status = f.status
    /\ f.status # "ub" => l.handlers = f.handlers

(* C12: whatever datagrams were received before, process_one gives for a    *)
(* datagram the outcome (handler invoked, value decoded, result) that it    *)
(* gives for the same datagram on a server that has received nothing.       *)
C12_OutcomeDependsOnDatagramOnly ==
    [][ Len(net') < Len(net) =>
            \E ub \in UBChoices :
                SameOutcome(last', FreshOutcome(Head(net), m_msg_handler,
                                                m_bundle_handler, ub)) ]_vars

====
